---- MODULE Spec2Model ----
(***************************************************************************)
(* Feature dynamics extraction of tsfresh: the name codec of               *)
(* feature_dynamics_utils.py, the windowed view the orchestrator builds,   *)
(* and the two-stage pipeline of feature_dynamics_extraction.py with its   *)
(* completeness filters.                                                   *)
(*                                                                         *)
(* A Python str is a sequence of one-character strings, so that replace,   *)
(* split, "in" and int() are computed character by character.              *)
(***************************************************************************)
EXTENDS Integers, Sequences, FiniteSets, TLC

VARIABLES
    \* ---- name codec (feature_dynamics_utils.py)
    cpc,                      \* position in the codec scenario
    feature_timeseries_name,  \* argument of clean_feature_timeseries_name
    window_length,            \* argument of clean_feature_timeseries_name
    encoded,                  \* value returned by clean_feature_timeseries_name
    full_feature_name,        \* argument of the two parse_* functions
    fts_information,          \* outcome of parse_feature_timeseries_parts
    fd_suffix,                \* what stage 2 appended: <<fd_name, fd_param...>>
    fd_information,           \* outcome of parse_feature_dynamics_parts
    reencoded,                \* clean_feature_timeseries_name of the decoded fts parts
    \* ---- windowed view (IterableSplitTsData / ApplyableSplitTsData)
    wpc,                      \* position in the windowed-view scenario
    series_length,            \* <<id, kind>> -> number of samples of that series
    split_size,               \* the split_size / window_length argument, a rational
    current,                  \* series being cut and the samples already consumed
    windows,                  \* the windows yielded so far, in order
    \* ---- extract_feature_dynamics
    ppc,                      \* position in extract_feature_dynamics
    regime,                   \* "resident" (pandas) or "partitioned" (dask)
    partition_of,             \* original id -> partition holding its rows
    error,                    \* exception that ended the call, or "none"
    stage1_rows,              \* long table returned by the first extract_features
    feature_timeseries,       \* the derived feature time series
    target_list,              \* kinds found with a missing value
    filtered,                 \* partitions whose rows have been filtered
    X_extracted,              \* wide table returned by the second extract_features
    X,                        \* the table returned
    \* ---- the two stage-1 branches of extract_feature_dynamics, side by side
    applied,                  \* the branches already applied to stage1_rows
    resident_timeseries,      \* feature_timeseries as the pandas branch leaves it
    partitioned_timeseries,   \* feature_timeseries as the dask branch leaves it
    \* ---- derive_features_dictionaries
    dpc,                      \* position in derive_features_dictionaries
    feature_names,            \* the list of names passed in
    name_index,               \* index in feature_names of the name being processed
    fts_mapping,              \* window_length -> ts_kind -> calculator -> parameters
    fd_mapping,               \* window_length -> fts name -> calculator -> parameters
    raised,                   \* exception that ended the call, or "none"
    last_update,              \* the latest update_feature_dictionary call
    insertions                \* the parameter sets handed over so far, in order

codec_vars == <<cpc, feature_timeseries_name, window_length, encoded, fd_suffix,
                full_feature_name, fts_information, fd_information, reencoded>>

window_vars == <<wpc, current, windows>>

data_vars == <<series_length, split_size>>

pipeline_vars == <<ppc, regime, partition_of, error, stage1_rows, feature_timeseries,
                   target_list, filtered, X_extracted, X>>

branch_vars == <<applied, resident_timeseries, partitioned_timeseries>>

dict_vars == <<dpc, feature_names, name_index, fts_mapping, fd_mapping, raised,
               last_update, insertions>>

vars == <<codec_vars, window_vars, data_vars, pipeline_vars, branch_vars, dict_vars>>

-----------------------------------------------------------------------------
(* Bounds of the model *)

\* longest canonical name, in double-underscore-delimited segments
MaxSegments == 3
\* largest window length handed to the codec (two decimal digits are reached)
MaxWindowLength == 10
\* longest raw string handed to the decoders, in chunks of RawChunks
MaxChunks == 4
\* longest source series of the windowed-view scenario, in samples
MaxLength == 5
\* longest source series of the pipeline scenario, in samples
MaxPipelineLength == 3
\* most cells one extract_features call leaves missing
MaxMissing == 2
\* longest list of names handed to derive_features_dictionaries
MaxNames == 3

-----------------------------------------------------------------------------
(* Python str and int primitives *)

Digits == <<"0", "1", "2", "3", "4", "5", "6", "7", "8", "9">>

IsDigit(c) == \E i \in 1..10 : Digits[i] = c

DigitValue(c) == (CHOOSE i \in 1..10 : Digits[i] = c) - 1

StartsWith(s, p) == Len(s) >= Len(p) /\ SubSeq(s, 1, Len(p)) = p

\* sub in s
str_contains(s, sub) ==
    \E i \in 1..(Len(s) - Len(sub) + 1) : SubSeq(s, i, i + Len(sub) - 1) = sub

\* s.replace(old, new, count): leftmost non-overlapping occurrences, at most
\* count of them; a negative count replaces them all.  old is never empty here.
RECURSIVE str_replace(_, _, _, _)
str_replace(s, old, new, count) ==
    IF count = 0 \/ Len(s) < Len(old) THEN s
    ELSE IF StartsWith(s, old)
         THEN new \o str_replace(SubSeq(s, Len(old) + 1, Len(s)), old, new,
                                 IF count > 0 THEN count - 1 ELSE count)
         ELSE <<Head(s)>> \o str_replace(Tail(s), old, new, count)

\* s.split(sep): cur is the part being read; the result is never empty.
RECURSIVE split_from(_, _, _)
split_from(s, sep, cur) ==
    IF Len(s) < Len(sep) THEN <<cur \o s>>
    ELSE IF StartsWith(s, sep)
         THEN <<cur>> \o split_from(SubSeq(s, Len(sep) + 1, Len(s)), sep, <<>>)
         ELSE split_from(Tail(s), sep, Append(cur, Head(s)))

str_split(s, sep) == split_from(s, sep, <<>>)

\* sep.join(parts)
RECURSIVE str_join(_, _)
str_join(parts, sep) ==
    IF Len(parts) = 0 THEN <<>>
    ELSE IF Len(parts) = 1 THEN parts[1]
    ELSE parts[1] \o sep \o str_join(Tail(parts), sep)

\* str(n) of a non-negative int: its decimal digits, no leading zero
RECURSIVE int_to_str(_)
int_to_str(n) ==
    IF n < 10 THEN <<Digits[n + 1]>>
    ELSE Append(int_to_str(n \div 10), Digits[(n % 10) + 1])

\* int(s) accepts decimal digits with single underscores between digits
\* (signs and surrounding blanks are outside the alphabet of the model).
int_accepts(s) ==
    /\ Len(s) > 0
    /\ IsDigit(s[1])
    /\ IsDigit(s[Len(s)])
    /\ \A i \in 1..Len(s) : IsDigit(s[i]) \/ s[i] = "_"
    /\ \A i \in 1..(Len(s) - 1) : ~(s[i] = "_" /\ s[i + 1] = "_")

RECURSIVE digits_value(_, _)
digits_value(s, acc) ==
    IF Len(s) = 0 THEN acc
    ELSE IF s[1] = "_" THEN digits_value(Tail(s), acc)
    ELSE digits_value(Tail(s), 10 * acc + DigitValue(s[1]))

int_of(s) == digits_value(s, 0)

-----------------------------------------------------------------------------
(* Tokens of the codec *)

double_underscore == <<"_", "_">>
ts_kind_token == <<"|", "|">>
feature_timeseries_parameter_token == <<"|">>
param_token == <<"|">>
window_length_token == <<"@">>
window_prefix == <<"w", "i", "n", "d", "o", "w", "_">>
window_suffix == <<"@">> \o window_prefix

-----------------------------------------------------------------------------
(* feature_dynamics_utils.py *)

\* a faulty variant: every double underscore becomes the kind separator
clean_all_kind_tokens(name, n) ==
    str_replace(name, double_underscore, ts_kind_token, -1)
        \o window_suffix \o int_to_str(n)

\* a faulty variant: the window tag is appended without its @ token
clean_without_window_token(name, n) ==
    str_replace(str_replace(name, double_underscore, ts_kind_token, 1),
                double_underscore, feature_timeseries_parameter_token, -1)
        \o window_prefix \o int_to_str(n)

clean_feature_timeseries_name(name, n) ==
    str_replace(str_replace(name, double_underscore, ts_kind_token, 1),
                double_underscore, feature_timeseries_parameter_token, -1)
        \o window_suffix \o int_to_str(n)

NoInformation == [status |-> "none", window_length |-> 0, parts |-> <<>>]
RaisedValueError == [status |-> "ValueError", window_length |-> 0, parts |-> <<>>]

\* a faulty variant: the whole name is split, the stage-2 suffix included
fts_split_whole_name(name) ==
    str_split(
        str_replace(
            str_replace(
                str_replace(name, ts_kind_token, double_underscore, -1),
                param_token, double_underscore, -1),
            window_length_token, double_underscore, -1),
        double_underscore)

\* the list split out of the part of the name before its first double underscore
fts_split(name) ==
    str_split(
        str_replace(
            str_replace(
                str_replace(str_split(name, double_underscore)[1],
                            ts_kind_token, double_underscore, -1),
                param_token, double_underscore, -1),
            window_length_token, double_underscore, -1),
        double_underscore)

parse_feature_timeseries_parts(name) ==
    LET split == fts_split(name)
        last == split[Len(split)]
        number == str_replace(last, window_prefix, <<>>, -1)
        fts_parts == SubSeq(split, 1, Len(split) - 1)
    IN  IF ~str_contains(last, window_prefix) THEN RaisedValueError
        ELSE IF ~int_accepts(number) THEN RaisedValueError
        ELSE IF Len(fts_parts) = 1 THEN RaisedValueError
        ELSE [status |-> "ok", window_length |-> int_of(number), parts |-> fts_parts]

parse_feature_dynamics_parts(name) ==
    LET fd_parts == str_split(name, double_underscore)
    IN  IF Len(fd_parts) = 1 THEN RaisedValueError
        ELSE [status |-> "ok", window_length |-> 0, parts |-> fd_parts]

-----------------------------------------------------------------------------
(* Inputs of the codec scenario *)

SeqsOfLength(S, lo, hi) == UNION {[1..k -> S] : k \in lo..hi}

RECURSIVE concat(_)
concat(chunks) ==
    IF Len(chunks) = 0 THEN <<>> ELSE chunks[1] \o concat(Tail(chunks))

\* segments a stage-1 name is made of: plain ones, one with an inner
\* underscore and a digit, one ending in an underscore, and two holding a
\* character the codec uses as a token
Segments ==
    { <<"a">>, <<"c", "_", "1">>, <<"a", "_">>, <<"p", "|", "q">>, <<"x", "@", "y">> }

a_b_c == <<"a", "_", "_", "b", "_", "_", "c">>

temperature_mean_lag_1 ==
    <<"t", "e", "m", "p", "e", "r", "a", "t", "u", "r", "e", "_", "_",
      "m", "e", "a", "n", "_", "_", "l", "a", "g", "_", "1">>

CanonicalInputs ==
    { str_join(segs, double_underscore) : segs \in SeqsOfLength(Segments, 1, MaxSegments) }
        \cup { temperature_mean_lag_1, a_b_c }

\* what extract_features appends to a derived kind in stage 2:
\* __<fd_name> or __<fd_name>__<fd_param>
FdSuffixes == { << <<"d">> >>, << <<"d">>, <<"e">> >> }

RawChunks == { <<"a">>, <<"_">>, <<"|">>, <<"@">>, window_prefix, <<"1">> }

RawInputs == { concat(chunks) : chunks \in SeqsOfLength(RawChunks, 0, MaxChunks) }

-----------------------------------------------------------------------------
(* The codec scenario: encode a stage-1 name, let stage 2 extend it, decode *)
(* it both ways and encode the decoded fts parts again; or decode a raw     *)
(* string.                                                                  *)

CodecInit ==
    /\ encoded = <<>>
    /\ fd_suffix = <<>>
    /\ fts_information = NoInformation
    /\ fd_information = NoInformation
    /\ reencoded = <<>>
    /\ \/ /\ cpc = "start"
          /\ feature_timeseries_name \in CanonicalInputs
          /\ window_length \in 0..MaxWindowLength
          /\ full_feature_name = <<>>
       \/ /\ cpc = "raw"
          /\ feature_timeseries_name = <<>>
          /\ window_length = 0
          /\ full_feature_name \in RawInputs

\* extract_feature_dynamics renames a stage-1 kind
Encode ==
    /\ cpc = "start"
    /\ encoded' = clean_feature_timeseries_name(feature_timeseries_name, window_length)
    /\ full_feature_name' = encoded'
    /\ cpc' = "encoded"
    /\ UNCHANGED <<feature_timeseries_name, window_length, fd_suffix, fts_information,
                   fd_information, reencoded, window_vars, data_vars, pipeline_vars,
                   branch_vars, dict_vars>>

\* stage 2 names a feature dynamic after the derived kind
Stage2Name ==
    /\ cpc = "encoded"
    /\ \E suffix \in FdSuffixes :
          /\ fd_suffix' = suffix
          /\ full_feature_name' =
                 encoded \o double_underscore \o str_join(suffix, double_underscore)
    /\ cpc' = "named"
    /\ UNCHANGED <<feature_timeseries_name, window_length, encoded, fts_information,
                   fd_information, reencoded, window_vars, data_vars, pipeline_vars,
                   branch_vars, dict_vars>>

DecodeFts ==
    /\ cpc \in {"encoded", "named", "raw"}
    /\ fts_information' = parse_feature_timeseries_parts(full_feature_name)
    /\ cpc' = IF cpc = "raw" THEN "raw_fts" ELSE "fts"
    /\ UNCHANGED <<feature_timeseries_name, window_length, encoded, fd_suffix, full_feature_name,
                   fd_information, reencoded, window_vars, data_vars, pipeline_vars,
                   branch_vars, dict_vars>>

DecodeFd ==
    /\ cpc \in {"fts", "raw_fts"}
    /\ fd_information' = parse_feature_dynamics_parts(full_feature_name)
    /\ cpc' = IF cpc = "raw_fts" THEN "raw_done" ELSE "fd"
    /\ UNCHANGED <<feature_timeseries_name, window_length, encoded, fd_suffix, full_feature_name,
                   fts_information, reencoded, window_vars, data_vars, pipeline_vars,
                   branch_vars, dict_vars>>

\* the fts parts joined by the double underscore and encoded again
ReEncode ==
    /\ cpc = "fd"
    /\ fts_information.status = "ok"
    /\ reencoded' = clean_feature_timeseries_name(
                        str_join(fts_information.parts, double_underscore),
                        fts_information.window_length)
    /\ cpc' = "reencoded"
    /\ UNCHANGED <<feature_timeseries_name, window_length, encoded, fd_suffix, full_feature_name,
                   fts_information, fd_information, window_vars, data_vars, pipeline_vars,
                   branch_vars, dict_vars>>


-----------------------------------------------------------------------------
(* The windowed view: IterableSplitTsData(ts_data, split_size) *)

\* split_size is a rational num/den, so that 1.5 can be handed in
IsInteger(q) == q.num % q.den = 0

IntegerOf(q) == q.num \div q.den

\* the window lengths tried on series of at most longest samples:
\* -20, 0, 1.5, and 1 up to longest + 1
SplitSizes(longest) ==
    { [num |-> n, den |-> 1] : n \in {-20} \cup 0..(longest + 1) }
        \cup { [num |-> 3, den |-> 2] }

shortest(lengths) ==
    CHOOSE m \in { lengths[k] : k \in DOMAIN lengths } :
        \A k \in DOMAIN lengths : m <= lengths[k]

\* the check the constructor makes
IsValidSplitSize(q, lengths) ==
    /\ IsInteger(q)
    /\ q.num > 0
    /\ IntegerOf(q) <= shortest(lengths)

\* the series of the windowed-view scenario, in the order they are iterated
WindowSeries == << <<1, "x">>, <<1, "y">>, <<2, "x">> >>

WindowKeys == { WindowSeries[i] : i \in 1..Len(WindowSeries) }

WindowInit ==
    /\ wpc = "new"
    /\ series_length \in [WindowKeys -> 1..MaxLength]
    /\ split_size \in SplitSizes(MaxLength)
    /\ current = [series |-> 1, index |-> 0, consumed |-> 0]
    /\ windows = <<>>

ConstructView ==
    /\ wpc = "new"
    /\ wpc' = IF IsValidSplitSize(split_size, series_length) THEN "iter" ELSE "ValueError"
    /\ UNCHANGED <<current, windows, data_vars, codec_vars, pipeline_vars,
                 branch_vars, dict_vars>>

\* a faulty variant: a trailing remainder is yielded as a short window
YieldWindowWithRemainder ==
    /\ wpc = "iter"
    /\ LET key == WindowSeries[current.series]
           left == series_length[key] - current.consumed
           size == IF left < IntegerOf(split_size) THEN left ELSE IntegerOf(split_size)
       IN  /\ left > 0
           /\ windows' = Append(windows,
                  [id |-> <<key[1], current.index>>,
                   kind |-> key[2],
                   samples |-> [j \in 1..size |-> current.consumed + j]])
           /\ current' = [current EXCEPT !.index = @ + 1, !.consumed = @ + size]
    /\ UNCHANGED <<wpc, data_vars, codec_vars, pipeline_vars,
                 branch_vars, dict_vars>>

\* the next split_size samples of the current series, under the composite id
\* (original id, window index); samples are named by their place in the series
YieldWindow ==
    /\ wpc = "iter"
    /\ LET key == WindowSeries[current.series]
           size == IntegerOf(split_size)
       IN  /\ series_length[key] - current.consumed >= size
           /\ windows' = Append(windows,
                  [id |-> <<key[1], current.index>>,
                   kind |-> key[2],
                   samples |-> [j \in 1..size |-> current.consumed + j]])
           /\ current' = [current EXCEPT !.index = @ + 1, !.consumed = @ + size]
    /\ UNCHANGED <<wpc, data_vars, codec_vars, pipeline_vars,
                 branch_vars, dict_vars>>

\* fewer than split_size samples are left: they are discarded
NextSeries ==
    /\ wpc = "iter"
    /\ series_length[WindowSeries[current.series]] - current.consumed
           < IntegerOf(split_size)
    /\ IF current.series = Len(WindowSeries)
       THEN wpc' = "done" /\ UNCHANGED current
       ELSE /\ wpc' = wpc
            /\ current' = [series |-> current.series + 1, index |-> 0, consumed |-> 0]
    /\ UNCHANGED <<windows, data_vars, codec_vars, pipeline_vars,
                 branch_vars, dict_vars>>

\* the composite ids the view yields for the series of lengths
composite_ids(lengths, q) ==
    UNION { { <<k[1], w>> : w \in 0..((lengths[k] \div IntegerOf(q)) - 1) } :
                k \in DOMAIN lengths }

-----------------------------------------------------------------------------
(* feature_dynamics_extraction.py: extract_feature_dynamics *)

\* the series of the pipeline scenario: two ids of one kind
PipelineKeys == { <<1, "x">>, <<2, "x">> }

OriginalIds == { k[1] : k \in PipelineKeys }

Partitions == {1, 2}

\* the stage-1 feature names: <kind>__<calc_name> and <kind>__<calc_name>__<param>
StageOneNames ==
    { <<"x", "_", "_", "a">>, <<"x", "_", "_", "a", "_", "_", "c", "_", "1">> }

\* the stage-2 calculators: <fd_name> and <fd_name>__<fd_param>
FdNames == { <<"d">>, <<"d", "_", "_", "e">> }

\* the subsets of S of at most k elements
RECURSIVE SubsetsUpTo(_, _)
SubsetsUpTo(S, k) ==
    IF k = 0 THEN { {} }
    ELSE SubsetsUpTo(S, k - 1)
             \cup { T \cup {x} : T \in SubsetsUpTo(S, k - 1), x \in S }

\* a faulty variant: only the first of the kinds with a missing value is reported
one_missing_kind(rows) ==
    LET found == { r.kind : r \in { q \in rows : q.value = "NaN" } }
    IN  IF found = {} THEN {}
        ELSE { CHOOSE k \in found : \A other \in found : Len(k) <= Len(other) }

\* rows[rows[column_value].isnull()][column_kind].unique()
missing_kinds(rows) == { r.kind : r \in { q \in rows : q.value = "NaN" } }

\* a faulty variant: only the rows holding the missing value are dropped
drop_missing_rows(rows, targets) == { r \in rows : r.value # "NaN" }

\* rows[~rows[column_kind].isin(targets)]
drop_kinds(rows, targets) == { r \in rows : r.kind \notin targets }

\* the stage-1 completeness filter: every row of a kind with a missing value goes
stage1_filter(rows) == drop_kinds(rows, missing_kinds(rows))

\* the kind renamed by the codec
rename(rows, n) ==
    { [r EXCEPT !.kind = clean_feature_timeseries_name(r.kind, n)] : r \in rows }

\* the composite id split into the columns id and sort
flatten(rows) ==
    { [id |-> r.id[1], sort |-> r.id[2], kind |-> r.kind, value |-> r.value] : r \in rows }

\* a faulty variant: how="all", a column goes only when all its values are missing
dropna_columns_all(table) ==
    { c \in table : \E d \in table : d.column = c.column /\ d.value # "NaN" }

\* X.dropna(axis="columns", how="any")
dropna_columns(table) ==
    { c \in table : \A d \in table : d.column = c.column => d.value # "NaN" }

\* X.isna().compute().any()
isna_any(table) ==
    [col \in { c.column : c \in table } |->
        \E d \in table : d.column = col /\ d.value = "NaN"]

\* X.loc[:, cols_to_keep]
loc_columns(table, cols_to_keep) == { c \in table : cols_to_keep[c.column] }

\* the stage-2 completeness filter of either branch
stage2_filter(table, branch) ==
    IF branch = "partitioned"
    THEN loc_columns(table, [col \in DOMAIN isna_any(table) |-> isna_any(table)[col] = FALSE])
    ELSE dropna_columns(table)

NotExtracted == {}

PipelineInit ==
    /\ ppc = "start"
    /\ series_length \in { [k \in PipelineKeys |-> n] : n \in 1..MaxPipelineLength }
    /\ split_size \in SplitSizes(MaxPipelineLength)
    /\ \/ regime = "resident" /\ partition_of = [i \in OriginalIds |-> 1]
       \/ regime = "partitioned" /\ partition_of \in [OriginalIds -> Partitions]
    /\ error = "none"
    /\ stage1_rows = NotExtracted
    /\ feature_timeseries = {}
    /\ target_list = {}
    /\ filtered = {}
    /\ X_extracted = {}
    /\ X = {}

\* a faulty variant: the view is built whatever the window length
SplitTsDataUnchecked ==
    /\ ppc = "start"
    /\ ppc' = "split"
    /\ UNCHANGED <<regime, partition_of, error, stage1_rows, feature_timeseries,
                   target_list, filtered, X_extracted, X, data_vars, codec_vars, window_vars,
                   branch_vars, dict_vars>>

\* to_tsdata, then IterableSplitTsData or ApplyableSplitTsData is constructed
SplitTsData ==
    /\ ppc = "start"
    /\ IF IsValidSplitSize(split_size, series_length)
       THEN ppc' = "split" /\ error' = error
       ELSE ppc' = "failed" /\ error' = "ValueError"
    /\ UNCHANGED <<regime, partition_of, stage1_rows, feature_timeseries,
                   target_list, filtered, X_extracted, X, data_vars, codec_vars, window_vars,
                   branch_vars, dict_vars>>

\* the first extract_features, pivot=False: one row per composite id and
\* feature name, its value missing or not
Stage1Extract ==
    /\ ppc = "split"
    /\ \E missing \in SubsetsUpTo(composite_ids(series_length, split_size)
                                     \X StageOneNames, MaxMissing) :
          stage1_rows' =
              { [id |-> c, kind |-> n,
                 value |-> IF <<c, n>> \in missing THEN "NaN" ELSE "1.0"] :
                    c \in composite_ids(series_length, split_size), n \in StageOneNames }
    /\ ppc' = "stage1"
    /\ UNCHANGED <<regime, partition_of, error, feature_timeseries,
                   target_list, filtered, X_extracted, X, data_vars, codec_vars, window_vars,
                   branch_vars, dict_vars>>

\* the pandas branch: filter, then rename, then split the composite id
ResidentFilterRename ==
    /\ ppc = "stage1"
    /\ regime = "resident"
    /\ target_list' = missing_kinds(stage1_rows)
    /\ feature_timeseries' =
           flatten(rename(stage1_filter(stage1_rows), IntegerOf(split_size)))
    /\ ppc' = "derived"
    /\ UNCHANGED <<regime, partition_of, error, stage1_rows, filtered,
                   X_extracted, X, data_vars, codec_vars, window_vars,
                   branch_vars, dict_vars>>

\* the dask branch: rename and split the composite id, partition by partition
PartitionedRename ==
    /\ ppc = "stage1"
    /\ regime = "partitioned"
    /\ feature_timeseries' = flatten(rename(stage1_rows, IntegerOf(split_size)))
    /\ ppc' = "renamed"
    /\ UNCHANGED <<regime, partition_of, error, stage1_rows, target_list, filtered,
                   X_extracted, X, data_vars, codec_vars, window_vars,
                   branch_vars, dict_vars>>

rows_of_partition(rows, p) == { r \in rows : partition_of[r.id] = p }

\* a faulty variant: the kinds with a missing value in the first partition only
ComputeTargetListOfOnePartition ==
    /\ ppc = "renamed"
    /\ target_list' = missing_kinds(rows_of_partition(feature_timeseries, 1))
    /\ ppc' = "targets"
    /\ UNCHANGED <<regime, partition_of, error, stage1_rows, feature_timeseries, filtered,
                   X_extracted, X, data_vars, codec_vars, window_vars,
                   branch_vars, dict_vars>>

\* .unique().compute(): the kinds with a missing value, gathered from every partition
ComputeTargetList ==
    /\ ppc = "renamed"
    /\ target_list' =
           UNION { missing_kinds(rows_of_partition(feature_timeseries, p)) : p \in Partitions }
    /\ ppc' = "targets"
    /\ UNCHANGED <<regime, partition_of, error, stage1_rows, feature_timeseries, filtered,
                   X_extracted, X, data_vars, codec_vars, window_vars,
                   branch_vars, dict_vars>>

\* the filter on target_list, applied to the rows of one partition
FilterPartition ==
    /\ ppc = "targets"
    /\ \E p \in Partitions \ filtered :
          /\ feature_timeseries' =
                 (feature_timeseries \ rows_of_partition(feature_timeseries, p))
                     \cup drop_kinds(rows_of_partition(feature_timeseries, p), target_list)
          /\ filtered' = filtered \cup {p}
          /\ ppc' = IF filtered' = Partitions THEN "derived" ELSE ppc
    /\ UNCHANGED <<regime, partition_of, error, stage1_rows, target_list,
                   X_extracted, X, data_vars, codec_vars, window_vars,
                   branch_vars, dict_vars>>

stage2_columns(rows) ==
    { r.kind \o double_underscore \o fd : r \in rows, fd \in FdNames }

\* to_numeric, to_tsdata and the second extract_features: one cell per
\* original id and <derived kind>__<fd calculator>, its value missing or not
Stage2Extract ==
    /\ ppc = "derived"
    /\ \E missing \in SubsetsUpTo({ r.id : r \in feature_timeseries }
                                     \X stage2_columns(feature_timeseries), MaxMissing) :
          X_extracted' =
              { [id |-> i, column |-> col,
                 value |-> IF <<i, col>> \in missing THEN "NaN" ELSE "1.0"] :
                    i \in { r.id : r \in feature_timeseries },
                    col \in stage2_columns(feature_timeseries) }
    /\ ppc' = "stage2"
    /\ UNCHANGED <<regime, partition_of, error, stage1_rows, feature_timeseries,
                   target_list, filtered, X, data_vars, codec_vars, window_vars,
                   branch_vars, dict_vars>>

\* the feature dynamics with a missing value are dropped and X is returned
Stage2Filter ==
    /\ ppc = "stage2"
    /\ X' = stage2_filter(X_extracted, regime)
    /\ ppc' = "done"
    /\ UNCHANGED <<regime, partition_of, error, stage1_rows, feature_timeseries,
                   target_list, filtered, X_extracted, data_vars, codec_vars, window_vars,
                   branch_vars, dict_vars>>

-----------------------------------------------------------------------------
(* feature_dynamics_utils.py: update_feature_dictionary *)

\* the names hasattr(feature_calculators, name) accepts
FeatureCalculators == { <<"a">>, <<"d">> }

\* a dictionary window_length -> column -> calculator -> parameters: the keys of
\* the three levels, and the value held under each calculator
EmptyDictionary == [windows |-> {}, columns |-> {}, calculators |-> <<>>]

\* the value None, and a list of parameter sets
NoneValue == [is_none |-> TRUE, configs |-> <<>>]
ListValue(configs) == [is_none |-> FALSE, configs |-> configs]

\* s.rsplit("_", 1): the position of the last underscore of s
last_underscore(s) ==
    CHOOSE i \in 1..Len(s) : s[i] = "_" /\ \A j \in (i + 1)..Len(s) : s[j] # "_"

\* ast.literal_eval on the text of a parameter value: a decimal integer
literal_accepts(value) ==
    int_accepts(value) /\ (Len(value) = 1 \/ value[1] # "0")

\* tsfresh.utilities.string_manipulation.get_config_from_string: None without
\* parameters, else the dict of key -> literal value, a later key replacing an
\* earlier one
get_config_from_string(parts) ==
    LET relevant_parts == SubSeq(parts, 3, Len(parts))
        key(i) == SubSeq(relevant_parts[i], 1, last_underscore(relevant_parts[i]) - 1)
        value(i) == SubSeq(relevant_parts[i], last_underscore(relevant_parts[i]) + 1,
                           Len(relevant_parts[i]))
        indices == 1..Len(relevant_parts)
    IN  IF relevant_parts = <<>>
        THEN [status |-> "ok", is_none |-> TRUE, items |-> {}]
        ELSE IF \E i \in indices : ~str_contains(relevant_parts[i], <<"_">>)
        THEN [status |-> "IndexError", is_none |-> TRUE, items |-> {}]
        ELSE IF \E i \in indices : ~literal_accepts(value(i))
        THEN [status |-> "ValueError", is_none |-> TRUE, items |-> {}]
        ELSE [status |-> "ok", is_none |-> FALSE,
              items |-> { <<key(i), int_of(value(i))>> :
                            i \in { j \in indices :
                                      \A k \in indices : key(k) = key(j) => k <= j } }]

\* config in configs
in_list(configs, config) == \E i \in 1..Len(configs) : configs[i] = config

\* d[key] = value, the key new or not
store(calculators, key, value) ==
    IF key \in DOMAIN calculators
    THEN [calculators EXCEPT ![key] = value]
    ELSE (key :> value) @@ calculators

\* a faulty variant: the parameter set is appended whether or not it is in the list
update_feature_dictionary_appending(feature_dictionary, wl, feature_parts) ==
    IF Len(feature_parts) < 2
    THEN [status |-> "IndexError", dictionary |-> feature_dictionary]
    ELSE
    LET ts_kind == feature_parts[1]
        feature_name == feature_parts[2]
        key == <<wl, ts_kind, feature_name>>
        with_keys == [feature_dictionary EXCEPT !.windows = @ \cup {wl},
                                                 !.columns = @ \cup {<<wl, ts_kind>>}]
        config == get_config_from_string(feature_parts)
        held == with_keys.calculators
    IN  IF feature_name \notin FeatureCalculators
        THEN [status |-> "ValueError", dictionary |-> with_keys]
        ELSE IF config.status # "ok"
        THEN [status |-> config.status, dictionary |-> with_keys]
        ELSE IF ~config.is_none
        THEN IF key \in DOMAIN held
             THEN IF held[key].is_none
                  THEN [status |-> "TypeError", dictionary |-> with_keys]
                  ELSE [status |-> "ok",
                        dictionary |-> [with_keys EXCEPT !.calculators =
                            store(held, key,
                                  ListValue(Append(held[key].configs, config.items)))]]
             ELSE [status |-> "ok",
                   dictionary |-> [with_keys EXCEPT !.calculators =
                       store(held, key, ListValue(<<config.items>>))]]
        ELSE [status |-> "ok",
              dictionary |-> [with_keys EXCEPT !.calculators = store(held, key, NoneValue)]]

\* update_feature_dictionary: the status the call ends with and the dictionary
\* as the call leaves it, returned or raised
update_feature_dictionary(feature_dictionary, wl, feature_parts) ==
    IF Len(feature_parts) < 2
    THEN [status |-> "IndexError", dictionary |-> feature_dictionary]
    ELSE
    LET ts_kind == feature_parts[1]
        feature_name == feature_parts[2]
        key == <<wl, ts_kind, feature_name>>
        with_keys == [feature_dictionary EXCEPT !.windows = @ \cup {wl},
                                                 !.columns = @ \cup {<<wl, ts_kind>>}]
        config == get_config_from_string(feature_parts)
        held == with_keys.calculators
    IN  IF feature_name \notin FeatureCalculators
        THEN [status |-> "ValueError", dictionary |-> with_keys]
        ELSE IF config.status # "ok"
        THEN [status |-> config.status, dictionary |-> with_keys]
        ELSE IF ~config.is_none
        THEN IF key \in DOMAIN held
             THEN IF held[key].is_none
                  THEN [status |-> "TypeError", dictionary |-> with_keys]
                  ELSE IF ~in_list(held[key].configs, config.items)
                  THEN [status |-> "ok",
                        dictionary |-> [with_keys EXCEPT !.calculators =
                            store(held, key,
                                  ListValue(Append(held[key].configs, config.items)))]]
                  ELSE [status |-> "ok", dictionary |-> with_keys]
             ELSE [status |-> "ok",
                   dictionary |-> [with_keys EXCEPT !.calculators =
                       store(held, key, ListValue(<<config.items>>))]]
        ELSE [status |-> "ok",
              dictionary |-> [with_keys EXCEPT !.calculators = store(held, key, NoneValue)]]

-----------------------------------------------------------------------------
(* feature_dynamics_utils.py: derive_features_dictionaries *)

\* <stage-1 name encoded for window length n>__<feature dynamic>
dynamics_name(fts_name, n, fd_name) ==
    clean_feature_timeseries_name(fts_name, n) \o double_underscore \o fd_name

x__a == <<"x", "_", "_", "a">>
x__a__e_1 == <<"x", "_", "_", "a", "_", "_", "e", "_", "1">>
x__a__e_2 == <<"x", "_", "_", "a", "_", "_", "e", "_", "2">>
x__z == <<"x", "_", "_", "z">>
d__e_1 == <<"d", "_", "_", "e", "_", "1">>
d__e_2 == <<"d", "_", "_", "e", "_", "2">>

\* the names handed to derive_features_dictionaries: calculators with and
\* without parameters under one column, two window lengths, a calculator the
\* catalog does not hold at either stage, and a name holding the window tag only
NamePool ==
    { dynamics_name(x__a, 1, <<"d">>),
      dynamics_name(x__a__e_1, 1, <<"d">>),
      dynamics_name(x__a__e_2, 1, <<"d">>),
      dynamics_name(x__a, 1, d__e_1),
      dynamics_name(x__a, 1, d__e_2),
      dynamics_name(x__a, 2, <<"d">>),
      dynamics_name(x__z, 1, <<"d">>),
      dynamics_name(x__a, 1, <<"z">>),
      window_prefix \o <<"1">> \o double_underscore \o <<"d">> }

NoUpdate ==
    [mapping |-> "none", status |-> "none", window_length |-> 0, parts |-> <<>>,
     before |-> EmptyDictionary, after |-> EmptyDictionary]

\* fts_mapping = {}; fd_mapping = {}; every name is a str
DictInit ==
    /\ dpc = "fts"
    /\ feature_names \in SeqsOfLength(NamePool, 0, MaxNames)
    /\ name_index = 1
    /\ fts_mapping = EmptyDictionary
    /\ fd_mapping = EmptyDictionary
    /\ raised = "none"
    /\ last_update = NoUpdate
    /\ insertions = <<>>

\* the parameter set a successful call handed over, if it handed one over
inserted(mapping, wl, feature_parts) ==
    IF get_config_from_string(feature_parts).is_none THEN <<>>
    ELSE << [mapping |-> mapping,
             key |-> <<wl, feature_parts[1], feature_parts[2]>>,
             config |-> get_config_from_string(feature_parts).items] >>

\* a faulty variant: the window length is asked of the fd decode
fd_window_length_of_fd(fts_info, fd_info) == fd_info.window_length

\* the window length the fd entry is stored under
fd_window_length(fts_info, fd_info) == fts_info.window_length

\* parse_feature_timeseries_parts, then update_feature_dictionary on fts_mapping
UpdateFts ==
    /\ dpc = "fts"
    /\ name_index <= Len(feature_names)
    /\ LET fts_info == parse_feature_timeseries_parts(feature_names[name_index])
           result == update_feature_dictionary(fts_mapping, fts_info.window_length,
                                               fts_info.parts)
       IN  IF fts_info.status # "ok"
           THEN /\ raised' = fts_info.status
                /\ dpc' = "raised"
                /\ UNCHANGED <<fts_mapping, last_update, insertions>>
           ELSE /\ last_update' =
                       [mapping |-> "fts", status |-> result.status,
                        window_length |-> fts_info.window_length, parts |-> fts_info.parts,
                        before |-> fts_mapping, after |-> result.dictionary]
                /\ fts_mapping' = result.dictionary
                /\ IF result.status = "ok"
                   THEN /\ dpc' = "fd"
                        /\ raised' = raised
                        /\ insertions' = insertions
                               \o inserted("fts", fts_info.window_length, fts_info.parts)
                   ELSE /\ dpc' = "raised"
                        /\ raised' = result.status
                        /\ insertions' = insertions
    /\ UNCHANGED <<feature_names, name_index, fd_mapping, codec_vars, window_vars,
                   data_vars, pipeline_vars, branch_vars>>

\* parse_feature_dynamics_parts, then update_feature_dictionary on fd_mapping
\* under the window length of the fts decode; the loop moves to the next name
UpdateFd ==
    /\ dpc = "fd"
    /\ LET fts_info == parse_feature_timeseries_parts(feature_names[name_index])
           fd_info == parse_feature_dynamics_parts(feature_names[name_index])
           wl == fd_window_length(fts_info, fd_info)
           result == update_feature_dictionary(fd_mapping, wl, fd_info.parts)
       IN  IF fd_info.status # "ok"
           THEN /\ raised' = fd_info.status
                /\ dpc' = "raised"
                /\ UNCHANGED <<fd_mapping, last_update, insertions, name_index>>
           ELSE /\ last_update' =
                       [mapping |-> "fd", status |-> result.status,
                        window_length |-> wl, parts |-> fd_info.parts,
                        before |-> fd_mapping, after |-> result.dictionary]
                /\ fd_mapping' = result.dictionary
                /\ IF result.status = "ok"
                   THEN /\ dpc' = "fts"
                        /\ name_index' = name_index + 1
                        /\ raised' = raised
                        /\ insertions' = insertions \o inserted("fd", wl, fd_info.parts)
                   ELSE /\ dpc' = "raised"
                        /\ raised' = result.status
                        /\ UNCHANGED <<insertions, name_index>>
    /\ UNCHANGED <<feature_names, fts_mapping, codec_vars, window_vars,
                   data_vars, pipeline_vars, branch_vars>>

\* return fts_mapping, fd_mapping
ReturnMappings ==
    /\ dpc = "fts"
    /\ name_index > Len(feature_names)
    /\ dpc' = "returned"
    /\ UNCHANGED <<feature_names, name_index, fts_mapping, fd_mapping, raised,
                   last_update, insertions, codec_vars, window_vars,
                   data_vars, pipeline_vars, branch_vars>>

-----------------------------------------------------------------------------
(* feature_dynamics_extraction.py: the two stage-1 branches on one long table *)

\* raw feature names of a stage-1 long table; the first two are renamed alike
BranchNames ==
    { <<"x", "_", "_", "a", "_", "_", "c">>,
      <<"x", "_", "_", "a", "|", "c">>,
      <<"x", "_", "_", "b">> }

\* the pandas branch: target_list, filter, rename, split of the composite id
resident_branch(rows, n) == flatten(rename(stage1_filter(rows), n))

\* the dask branch: rename, split of the composite id, target_list gathered
\* from every partition, filter
partitioned_branch(rows, n) ==
    LET renamed == flatten(rename(rows, n))
        targets == UNION { missing_kinds(rows_of_partition(renamed, p)) : p \in Partitions }
    IN  drop_kinds(renamed, targets)

\* a stage-1 long table: one row per composite id and raw feature name
BranchInit ==
    /\ applied = {}
    /\ resident_timeseries = {}
    /\ partitioned_timeseries = {}
    /\ series_length \in { [k \in PipelineKeys |-> n] : n \in 1..MaxPipelineLength }
    /\ split_size \in { q \in SplitSizes(MaxPipelineLength) :
                          IsValidSplitSize(q, series_length) }
    /\ partition_of \in [OriginalIds -> Partitions]
    /\ \E missing \in SubsetsUpTo(composite_ids(series_length, split_size)
                                     \X BranchNames, MaxMissing) :
          stage1_rows =
              { [id |-> c, kind |-> n,
                 value |-> IF <<c, n>> \in missing THEN "NaN" ELSE "1.0"] :
                    c \in composite_ids(series_length, split_size), n \in BranchNames }
    /\ ppc = "idle"
    /\ regime = "resident"
    /\ error = "none"
    /\ feature_timeseries = {}
    /\ target_list = {}
    /\ filtered = {}
    /\ X_extracted = {}
    /\ X = {}

\* isinstance(feature_timeseries, dd.DataFrame) is false
ApplyResidentBranch ==
    /\ "resident" \notin applied
    /\ resident_timeseries' = resident_branch(stage1_rows, IntegerOf(split_size))
    /\ applied' = applied \cup {"resident"}
    /\ UNCHANGED <<partitioned_timeseries, pipeline_vars, data_vars, codec_vars,
                   window_vars, dict_vars>>

\* isinstance(feature_timeseries, dd.DataFrame) is true
ApplyPartitionedBranch ==
    /\ "partitioned" \notin applied
    /\ partitioned_timeseries' = partitioned_branch(stage1_rows, IntegerOf(split_size))
    /\ applied' = applied \cup {"partitioned"}
    /\ UNCHANGED <<resident_timeseries, pipeline_vars, data_vars, codec_vars,
                   window_vars, dict_vars>>

-----------------------------------------------------------------------------
(* Specifications: each scenario leaves the variables of the others alone *)

CodecIdle ==
    /\ cpc = "idle"
    /\ feature_timeseries_name = <<>>
    /\ window_length = 0
    /\ encoded = <<>>
    /\ fd_suffix = <<>>
    /\ full_feature_name = <<>>
    /\ fts_information = NoInformation
    /\ fd_information = NoInformation
    /\ reencoded = <<>>

WindowIdle ==
    /\ wpc = "idle"
    /\ current = [series |-> 1, index |-> 0, consumed |-> 0]
    /\ windows = <<>>

DataIdle ==
    /\ series_length = [k \in PipelineKeys |-> 1]
    /\ split_size = [num |-> 1, den |-> 1]

PipelineIdle ==
    /\ ppc = "idle"
    /\ regime = "resident"
    /\ partition_of = [i \in OriginalIds |-> 1]
    /\ error = "none"
    /\ stage1_rows = NotExtracted
    /\ feature_timeseries = {}
    /\ target_list = {}
    /\ filtered = {}
    /\ X_extracted = {}
    /\ X = {}

BranchIdle ==
    /\ applied = {}
    /\ resident_timeseries = {}
    /\ partitioned_timeseries = {}

DictIdle ==
    /\ dpc = "idle"
    /\ feature_names = <<>>
    /\ name_index = 0
    /\ fts_mapping = EmptyDictionary
    /\ fd_mapping = EmptyDictionary
    /\ raised = "none"
    /\ last_update = NoUpdate
    /\ insertions = <<>>

CodecScenarioInit ==
    CodecInit /\ WindowIdle /\ DataIdle /\ PipelineIdle /\ BranchIdle /\ DictIdle

CodecNext == Encode \/ Stage2Name \/ DecodeFts \/ DecodeFd \/ ReEncode

SpecCodec == CodecScenarioInit /\ [][CodecNext]_vars

WindowScenarioInit == WindowInit /\ CodecIdle /\ PipelineIdle /\ BranchIdle /\ DictIdle

WindowNext == ConstructView \/ YieldWindow \/ NextSeries

SpecWindow == WindowScenarioInit /\ [][WindowNext]_vars

PipelineScenarioInit == PipelineInit /\ CodecIdle /\ WindowIdle /\ BranchIdle /\ DictIdle

PipelineNext ==
    \/ SplitTsData
    \/ Stage1Extract
    \/ ResidentFilterRename
    \/ PartitionedRename
    \/ ComputeTargetList
    \/ FilterPartition
    \/ Stage2Extract
    \/ Stage2Filter

SpecPipeline == PipelineScenarioInit /\ [][PipelineNext]_vars

BranchScenarioInit == BranchInit /\ CodecIdle /\ WindowIdle /\ DictIdle

BranchNext == ApplyResidentBranch \/ ApplyPartitionedBranch

SpecBranches == BranchScenarioInit /\ [][BranchNext]_vars

DictScenarioInit ==
    DictInit /\ CodecIdle /\ WindowIdle /\ DataIdle /\ PipelineIdle /\ BranchIdle

DictNext == UpdateFts \/ UpdateFd \/ ReturnMappings

SpecDictionaries == DictScenarioInit /\ [][DictNext]_vars

-----------------------------------------------------------------------------
(* Properties of the name codec *)

\* a double-underscore-delimited segment: not empty, not beginning and not
\* ending with an underscore
IsSegment(seg) == Len(seg) > 0 /\ seg[1] # "_" /\ seg[Len(seg)] # "_"

\* a segment holding none of the characters the codec uses as tokens
IsPlainSegment(seg) ==
    IsSegment(seg) /\ \A i \in 1..Len(seg) : seg[i] \notin {"|", "@"}

SegmentsOf(name) == str_split(name, double_underscore)

\* <kind>__<calc_name>__<param>...
ValidCanonicalName(name) ==
    /\ Len(SegmentsOf(name)) >= 2
    /\ \A i \in 1..Len(SegmentsOf(name)) : IsSegment(SegmentsOf(name)[i])

PlainCanonicalName(name) ==
    /\ Len(SegmentsOf(name)) >= 2
    /\ \A i \in 1..Len(SegmentsOf(name)) : IsPlainSegment(SegmentsOf(name)[i])

FtsDecoded == cpc \in {"fts", "fd", "reencoded"}

\* <seg 1>||<seg 2>|<seg 3>|...@window_<digits>, written out from the segments
EncodingOf(segs, digits) ==
    (IF Len(segs) = 1 THEN segs[1]
     ELSE segs[1] \o <<"|", "|">> \o str_join(Tail(segs), <<"|">>))
        \o <<"@", "w", "i", "n", "d", "o", "w", "_">> \o digits

temperature_encoded ==
    <<"t", "e", "m", "p", "e", "r", "a", "t", "u", "r", "e", "|", "|",
      "m", "e", "a", "n", "|", "l", "a", "g", "_", "1",
      "@", "w", "i", "n", "d", "o", "w", "_", "5">>

a_b_c_encoded == <<"a", "|", "|", "b", "|", "c", "@", "w", "i", "n", "d", "o", "w", "_", "3">>

\* C3: decoding the encoding of a valid canonical name with a positive window
\* length N succeeds and returns window_length = N.
C3_WindowLengthRoundTrip ==
    (FtsDecoded /\ ValidCanonicalName(feature_timeseries_name) /\ window_length >= 1)
        => /\ fts_information.status = "ok"
           /\ fts_information.window_length = window_length

\* a valid canonical name with a two-digit window length has been encoded and decoded
C3_Witness ==
    /\ FtsDecoded
    /\ ValidCanonicalName(feature_timeseries_name)
    /\ window_length >= 10
    /\ fts_information.status = "ok"

\* C4: a name produced by clean_feature_timeseries_name from a valid canonical
\* name decodes, and its fts parts joined by the double underscore and encoded
\* again with the decoded window length give the same string.
C4_FtsRoundTripIdentity ==
    (ValidCanonicalName(feature_timeseries_name) /\ window_length >= 1)
        => /\ FtsDecoded => fts_information.status = "ok"
           /\ cpc = "reencoded" => reencoded = encoded

\* C5: the first double underscore becomes ||, every later one |, and
\* @window_<N> is appended; temperature__mean__lag_1 with 5 gives
\* temperature||mean|lag_1@window_5.
C5_EncodeSeparators ==
    cpc # "start" /\ cpc # "raw" /\ cpc # "raw_fts" /\ cpc # "raw_done"
        => /\ encoded = EncodingOf(SegmentsOf(feature_timeseries_name),
                                   int_to_str(window_length))
           /\ (feature_timeseries_name = temperature_mean_lag_1 /\ window_length = 5)
                  => encoded = temperature_encoded

\* the example of the claim, and a name of three segments, have been encoded
C5_Witness ==
    /\ cpc = "encoded"
    /\ \/ feature_timeseries_name = temperature_mean_lag_1 /\ window_length = 5
       \/ Len(SegmentsOf(feature_timeseries_name)) = 3 /\ window_length = 10

HasWindowToken(s) ==
    \E i \in 1..(Len(s) - Len(window_prefix)) :
        /\ SubSeq(s, i, i + Len(window_prefix) - 1) = window_prefix
        /\ IsDigit(s[i + Len(window_prefix)])

\* C7: parse_feature_timeseries_parts raises ValueError for every string
\* that holds no window_<integer> token.
C7_NoWindowTokenRaises ==
    (cpc \in {"raw_fts", "raw_done"} /\ ~HasWindowToken(full_feature_name))
        => fts_information.status = "ValueError"

-----------------------------------------------------------------------------
(* Properties of the windowed view *)

WindowsOf(key) ==
    { i \in 1..Len(windows) : windows[i].id[1] = key[1] /\ windows[i].kind = key[2] }

\* C1: a series of length L cut with a valid split_size gives exactly
\* floor(L / split_size) windows, each of split_size consecutive samples, with
\* the window indices 0..floor(L / split_size)-1 each used once, no sample in
\* two windows and the trailing L mod split_size samples in no window.
C1_WindowCount ==
    /\ \A i \in 1..Len(windows) :
          /\ Len(windows[i].samples) = IntegerOf(split_size)
          /\ \A j \in 1..(Len(windows[i].samples) - 1) :
                windows[i].samples[j + 1] = windows[i].samples[j] + 1
    /\ wpc = "done" =>
          \A key \in WindowKeys :
             LET L == series_length[key]
                 size == IntegerOf(split_size)
             IN  /\ Cardinality(WindowsOf(key)) = L \div size
                 /\ { windows[i].id[2] : i \in WindowsOf(key) } = 0..((L \div size) - 1)
                 /\ \A i, j \in WindowsOf(key) :
                       i # j => /\ windows[i].id[2] # windows[j].id[2]
                                /\ \A a \in 1..size, b \in 1..size :
                                      windows[i].samples[a] # windows[j].samples[b]
                 /\ \A i \in WindowsOf(key) : \A a \in 1..size :
                       /\ windows[i].samples[a] >= 1
                       /\ windows[i].samples[a] <= L - (L % size)

\* a series of two full windows and a remainder has been cut
C1_Witness ==
    /\ wpc = "done"
    /\ \E key \in WindowKeys :
          /\ series_length[key] % IntegerOf(split_size) # 0
          /\ Cardinality(WindowsOf(key)) = 2

-----------------------------------------------------------------------------
(* Properties of extract_feature_dynamics *)

\* zero, negative, not an integer, or larger than the shortest series
InvalidSplitSize ==
    \/ split_size.num = 0
    \/ split_size.num < 0
    \/ split_size.num % split_size.den # 0
    \/ split_size.num > split_size.den * shortest(series_length)

\* C2: with a split_size that is zero, negative, not an integer or larger than
\* the shortest series, constructing the windowed view raises ValueError:
\* extract_feature_dynamics ends there, stage 1 is never invoked and no
\* window is produced.
C2_InvalidSplitSizeFails ==
    (InvalidSplitSize /\ ppc # "start")
        => /\ ppc = "failed"
           /\ error = "ValueError"
           /\ stage1_rows = NotExtracted
           /\ feature_timeseries = {}
           /\ X = {}

\* a window length of 1.5 has been refused
C2_Witness ==
    /\ ppc = "failed"
    /\ error = "ValueError"
    /\ split_size = [num |-> 3, den |-> 2]

Derived == ppc \in {"derived", "stage2", "done"}

has_missing(name) == \E r \in stage1_rows : r.kind = name /\ r.value = "NaN"

derived_row(r) ==
    [id |-> r.id[1], sort |-> r.id[2],
     kind |-> clean_feature_timeseries_name(r.kind, IntegerOf(split_size)),
     value |-> r.value]

columns_of(table) == { c.column : c \in table }

complete_columns(table) ==
    { col \in columns_of(table) :
        \A c \in table : c.column = col => c.value # "NaN" }

\* C9: the returned table holds no column with a missing value and every
\* stage-2 column without one, in both branches.
C9_Stage2Completeness ==
    ppc = "done" =>
        /\ \A c \in X : c.value # "NaN"
        /\ columns_of(X) = complete_columns(X_extracted)
        /\ X = { c \in X_extracted : c.column \in complete_columns(X_extracted) }

\* in the dask branch a column with one missing value has been dropped and
\* another column kept
C9_Witness ==
    /\ ppc = "done"
    /\ regime = "partitioned"
    /\ X # {}
    /\ columns_of(X) # columns_of(X_extracted)
    /\ \E c \in X_extracted : c.value = "NaN" /\ \E d \in X_extracted :
          d.column = c.column /\ d.value # "NaN"

\* C10: the stage-1 filter and the stage-2 filter, applied to their own
\* output, give that output back.
C10_FilterIdempotent ==
    /\ ppc \in {"stage1", "renamed", "targets", "derived", "stage2", "done"} =>
          stage1_filter(stage1_filter(stage1_rows)) = stage1_filter(stage1_rows)
    /\ Derived => stage1_filter(feature_timeseries) = feature_timeseries
    /\ ppc \in {"stage2", "done"} =>
          stage2_filter(stage2_filter(X_extracted, regime), regime)
              = stage2_filter(X_extracted, regime)
    /\ ppc = "done" => stage2_filter(X, regime) = X

\* both filters have dropped something and kept something
C10_Witness ==
    /\ ppc = "done"
    /\ feature_timeseries # {}
    /\ Cardinality(feature_timeseries) < Cardinality(stage1_rows)
    /\ X # {}
    /\ X # X_extracted


-----------------------------------------------------------------------------
(* Properties of the two stage-1 branches *)

BothApplied == applied = {"resident", "partitioned"}

\* the derived columns of the table that a branch left no row of
excluded_columns(kept) ==
    { r.kind : r \in flatten(rename(stage1_rows, IntegerOf(split_size))) }
        \ { r.kind : r \in kept }

\* C11: applied to one stage-1 long table, the resident branch and the
\* partitioned branch exclude the same derived columns and keep the same
\* renamed rows.
C11_BranchesAgree ==
    BothApplied =>
        /\ excluded_columns(resident_timeseries) = excluded_columns(partitioned_timeseries)
        /\ resident_timeseries = partitioned_timeseries

-----------------------------------------------------------------------------
(* Properties of the partitioned stage-1 filter *)

\* the kinds with a missing value in any partition of the renamed table
kinds_missing_anywhere ==
    UNION { missing_kinds(rows_of_partition(
                flatten(rename(stage1_rows, IntegerOf(split_size))), p)) : p \in Partitions }

\* C15: in the partitioned regime, once the rows of any partition have been
\* filtered, the exclusion set is the union over all partitions of the kinds
\* with a missing value, and it was computed before that filtering: no
\* partition is filtered while the set is still to be computed.
C15_ExclusionSetComplete ==
    regime = "partitioned" =>
        /\ filtered # {} => ppc \in {"targets", "derived", "stage2", "done"}
        /\ ppc \in {"targets", "derived", "stage2", "done"} =>
               target_list = kinds_missing_anywhere

\* one partition is filtered and the other is not, and a kind of the exclusion
\* set has its missing values in the partition still to be filtered only
C15_Witness ==
    /\ regime = "partitioned"
    /\ ppc = "targets"
    /\ filtered = {1}
    /\ \E k \in target_list :
          /\ \E r \in flatten(stage1_rows) :
                 clean_feature_timeseries_name(r.kind, IntegerOf(split_size)) = k
                     /\ r.value = "NaN"
          /\ \A r \in flatten(stage1_rows) :
                 (clean_feature_timeseries_name(r.kind, IntegerOf(split_size)) = k
                     /\ r.value = "NaN") => partition_of[r.id] = 2
    /\ \E r \in feature_timeseries : partition_of[r.id] = 1

-----------------------------------------------------------------------------
(* Properties of the codec at its boundaries *)

EndsWith(s, p) == Len(p) <= Len(s) /\ SubSeq(s, Len(s) - Len(p) + 1, Len(s)) = p

\* C14: clean_feature_timeseries_name never produces a name tagged @window_0.
C14_ZeroWindowRejected ==
    cpc \in {"encoded", "named", "fts", "fd", "reencoded"} =>
        ~EndsWith(encoded, window_suffix \o <<"0">>)

\* C17: a decoder that returns, returns at least two parts.
C17_AtLeastTwoParts ==
    /\ fts_information.status = "ok" => Len(fts_information.parts) >= 2
    /\ fd_information.status = "ok" => Len(fd_information.parts) >= 2

-----------------------------------------------------------------------------
(* Properties of the feature dictionaries *)

Finished == dpc \in {"returned", "raised"}

\* a decoded stage-1 or stage-2 calculator name of the name is not in the catalog
has_unknown_calculator(name) ==
    LET fts_info == parse_feature_timeseries_parts(name)
        fd_info == parse_feature_dynamics_parts(name)
    IN  \/ /\ fts_info.status = "ok"
           /\ Len(fts_info.parts) >= 2
           /\ fts_info.parts[2] \notin FeatureCalculators
        \/ /\ fd_info.status = "ok"
           /\ fd_info.parts[2] \notin FeatureCalculators

calculators_of(dictionary) == { key[3] : key \in DOMAIN dictionary.calculators }

\* C12: derive_features_dictionaries ends with a ValueError whenever a name of
\* its input decodes to a calculator the catalog does not hold, and the
\* dictionaries it returns hold catalog calculators only.
C12_UnknownCalculatorRaises ==
    Finished =>
        /\ (\E i \in 1..Len(feature_names) : has_unknown_calculator(feature_names[i]))
               => dpc = "raised" /\ raised = "ValueError"
        /\ dpc = "returned" =>
               calculators_of(fts_mapping) \cup calculators_of(fd_mapping)
                   \subseteq FeatureCalculators

\* the parameter sets handed over for a calculator, in the order of the calls
handed_over(mapping, key) ==
    LET calls == SelectSeq(insertions, LAMBDA e : e.mapping = mapping /\ e.key = key)
    IN  [i \in 1..Len(calls) |-> calls[i].config]

\* the distinct parameter sets of a list, each at its first place
RECURSIVE first_insertions(_)
first_insertions(configs) ==
    IF configs = <<>> THEN <<>>
    ELSE LET front == first_insertions(SubSeq(configs, 1, Len(configs) - 1))
             last == configs[Len(configs)]
         IN  IF in_list(front, last) THEN front ELSE Append(front, last)

parameter_lists_ordered(mapping, dictionary) ==
    \A key \in DOMAIN dictionary.calculators :
        ~dictionary.calculators[key].is_none =>
            LET configs == dictionary.calculators[key].configs
            IN  /\ \A i, j \in 1..Len(configs) : i # j => configs[i] # configs[j]
                /\ configs = first_insertions(handed_over(mapping, key))

\* C13: after the successful update_feature_dictionary calls made so far, no
\* parameter list holds a parameter set twice, and every parameter list holds
\* its parameter sets in the order they were first handed over.
C13_DistinctInInsertionOrder ==
    /\ parameter_lists_ordered("fts", fts_mapping)
    /\ parameter_lists_ordered("fd", fd_mapping)

\* a list of two parameter sets, one of them handed over twice
C13_Witness ==
    /\ dpc = "returned"
    /\ \E key \in DOMAIN fd_mapping.calculators :
          /\ ~fd_mapping.calculators[key].is_none
          /\ Len(fd_mapping.calculators[key].configs) = 2
          /\ Len(handed_over("fd", key)) = 3

\* C16: when derive_features_dictionaries returns, the two dictionaries have
\* the same window-length keys and the fd entry of every name is stored under
\* the window length of that name's fts decode.
C16_SameWindowLengths ==
    dpc = "returned" =>
        /\ fts_mapping.windows = fd_mapping.windows
        /\ \A i \in 1..Len(feature_names) :
              LET fts_info == parse_feature_timeseries_parts(feature_names[i])
                  fd_info == parse_feature_dynamics_parts(feature_names[i])
              IN  <<fts_info.window_length, fd_info.parts[1], fd_info.parts[2]>>
                      \in DOMAIN fd_mapping.calculators

\* names of two window lengths have been accumulated
C16_Witness ==
    /\ dpc = "returned"
    /\ fts_mapping.windows = {1, 2}
    /\ fd_mapping.windows = {1, 2}

\* C18: every update_feature_dictionary call for a catalog calculator completes
\* without error and keeps every parameter set the dictionary held before it.
C18_MonotonicAccumulation ==
    (/\ last_update.mapping # "none"
     /\ Len(last_update.parts) >= 2
     /\ last_update.parts[2] \in FeatureCalculators) =>
        /\ last_update.status = "ok"
        /\ \A key \in DOMAIN last_update.before.calculators :
              \A i \in 1..Len(last_update.before.calculators[key].configs) :
                  /\ key \in DOMAIN last_update.after.calculators
                  /\ in_list(last_update.after.calculators[key].configs,
                             last_update.before.calculators[key].configs[i])

\* C19: an update_feature_dictionary call that raises the unknown-calculator
\* error leaves the dictionary as it was before the call.
C19_FailedUpdateLeavesDictionary ==
    (/\ last_update.status = "ValueError"
     /\ Len(last_update.parts) >= 2
     /\ last_update.parts[2] \notin FeatureCalculators) =>
        last_update.after = last_update.before

=============================================================================
